---- MODULE Spec2Model ----
(***************************************************************************)
(* Model of the retrieval engine of the mental-health chatbot:             *)
(*   src/models/embeddings.py  EmbeddingModel  (the vector store)          *)
(*   src/utils/rag.py          MentalHealthRAG (the Retriever)             *)
(*                                                                         *)
(* Representation.                                                         *)
(*  - A query is a sequence of one-character strings, so that lower(),     *)
(*    strip() and the substring tests on it are computed, not assumed.     *)
(*  - A stored text is [body, len, pad]: a name for its content, the       *)
(*    number of characters left after strip() and the number of            *)
(*    surrounding whitespace characters.  Only lengths matter to packing.  *)
(*  - A metadata map is a function from key strings to values.  PyNone     *)
(*    stands for Python's None.                                            *)
(*  - An embedding is a point of the integer line; 0 is the all-zero       *)
(*    vector.  A distance is the squared difference, in units of 0.2, and  *)
(*    a similarity is in hundredths, so max(0, 1 - d/4.0) is exact.        *)
(*  - The FAISS index is the sequence of its vectors; Python position i    *)
(*    is position i+1 here.                                                *)
(***************************************************************************)
EXTENDS Integers, Sequences, FiniteSets, TLC

VARIABLES
    index,             \* EmbeddingModel.index: the vectors, in insertion order
    texts,             \* EmbeddingModel.texts
    metadata,          \* EmbeddingModel.metadata
    rag,               \* TRUE when a MentalHealthRAG wraps the store
    knowledge_loaded,  \* MentalHealthRAG.knowledge_loaded
    disk,              \* persist_path: [index_faiss, data_pkl]
    ret,               \* what the last operation returned
    last,              \* the last operation and its inputs (history)
    prevSnap,          \* history: store at the last save_index that completed
    newSnap,           \* history: store at the last save_index call
    nops,              \* number of operations so far
    pk_results,        \* packing harness: the search results handed to the packer
    pk_query,          \* packing harness: the query
    par,               \* concurrent search calls: [pc, loc, out, arg]
    heap,              \* metadata objects by reference: [objs, docs]
    llm                \* LLMProvider: the arguments of a call and its prompt

vars == <<index, texts, metadata, rag, knowledge_loaded, disk, ret, last,
          prevSnap, newSnap, nops, pk_results, pk_query, par, heap, llm>>

(***************************** bounds ***************************************)
MaxOps == 4        \* operations in one behaviour
MaxStore == 4      \* vectors / texts held by the store
MaxK == 2          \* largest k / max_results tried
MaxPackLen == 16   \* results handed to the packer in the packing harness
MaxVaried == 2     \* of which this many are drawn freely
NumCalls == 2      \* search calls running at the same time

(***************************** program constants ****************************)
Dimension == 1536            \* self.dimension
RetrieveThreshold == 20      \* score_threshold=0.2 of retrieve_knowledge
DefaultThreshold == 80       \* score_threshold=0.8, the default of search
DefaultContextLength == 1500 \* context_length default
MinFragment == 100           \* remaining_space > 100
FragmentReserve == 10        \* ... - len(source_info) - 10
SeparatorLen == 7            \* len("\n\n---\n\n")
ChunkSize == 500             \* chunk_size=500
ChunkOverlap == 50           \* chunk_overlap=50
EllipsisLen == 3             \* len("...")
CrisisBlockLen == 505        \* len of the crisis block of _get_default_context
GenericBlockLen == 333       \* len of the generic block of _get_default_context

PyNone == "<None>"
ZeroVec == 0

(***************************** strings **************************************)
Lowercase ==
    [A |-> "a", B |-> "b", C |-> "c", D |-> "d", E |-> "e", F |-> "f",
     G |-> "g", H |-> "h", I |-> "i", J |-> "j", K |-> "k", L |-> "l",
     M |-> "m", N |-> "n", O |-> "o", P |-> "p", Q |-> "q", R |-> "r",
     S |-> "s", T |-> "t", U |-> "u", V |-> "v", W |-> "w", X |-> "x",
     Y |-> "y", Z |-> "z"]

\* str.lower()
Lower(s) == [i \in 1..Len(s) |-> IF s[i] \in DOMAIN Lowercase
                                    THEN Lowercase[s[i]] ELSE s[i]]

\* keyword in s
Contains(s, kw) ==
    \E i \in 1..(Len(s) - Len(kw) + 1) : SubSeq(s, i, i + Len(kw) - 1) = kw

\* str.strip() on a query
QStrip(s) ==
    LET keep == {i \in 1..Len(s) : s[i] # " "}
    IN  IF keep = {} THEN <<>>
        ELSE LET lo == CHOOSE i \in keep : \A j \in keep : i <= j
                 hi == CHOOSE i \in keep : \A j \in keep : j <= i
             IN  SubSeq(s, lo, hi)

\* crisis_keywords of retrieve_knowledge
PackKeywords ==
    { <<"s","u","i","c","i","d","e">>, <<"c","r","i","s","i","s">>,
      <<"e","m","e","r","g","e","n","c","y">>, <<"h","a","r","m">>,
      <<"d","a","n","g","e","r">> }

\* a default-context list that lost "die" and "kill"
DefaultKeywordsFive == PackKeywords

\* crisis_keywords of _get_default_context
DefaultKeywords ==
    { <<"s","u","i","c","i","d","e">>, <<"c","r","i","s","i","s">>,
      <<"e","m","e","r","g","e","n","c","y">>, <<"h","a","r","m">>,
      <<"d","a","n","g","e","r">>, <<"d","i","e">>, <<"k","i","l","l">> }

\* any(keyword in query.lower() for keyword in crisis_keywords)
QueryIsCrisis(q) == \E kw \in PackKeywords : Contains(Lower(q), kw)

(***************************** texts & metadata *****************************)
Text(b, n, p) == [body |-> b, len |-> n, pad |-> p]
Strip(t) == [t EXCEPT !.pad = 0]
\* not text or not text.strip()
IsBlank(t) == t.len = 0
PyLen(t) == t.len + t.pad

\* dict.get(key, default)
Get(m, k, default) == IF k \in DOMAIN m THEN m[k] ELSE default

\* truthiness of a metadata value
Truthy(v) == v # PyNone /\ v # ""

NoMeta == <<>>

\* Optional[Dict]: <<>> is None, <<m>> is the map m
None == <<>>
Some(m) == <<m>>

(***************************** the corpus ***********************************)
\* mental_health_docs: the depression and the crisis_resource document
\* (documents 2 and 4 of the eight; the others differ from these two only
\* in wording).  len is the length of the stripped content, pad that of the
\* whitespace around it.
DepressionDoc ==
    [content |-> Text("depression", 421, 42),
     metadata |-> [type |-> "educational", category |-> "depression",
                   source |-> "mental_health_guide"]]

CrisisDoc ==
    [content |-> Text("crisis_resource", 441, 42),
     metadata |-> [type |-> "crisis_resource", category |-> "emergency",
                   priority |-> "high", source |-> "crisis_guide"]]

StaticDocs == <<DepressionDoc, CrisisDoc>>

\* the document synthesized for one entry of counselors.json
CounselorDoc ==
    [content |-> Text("counselor", 330, 42),
     metadata |-> [type |-> "counselor_info", category |-> "staff",
                   counselor_name |-> "Dr. Rao",
                   programs |-> <<"MSc Data Analytics">>,
                   source |-> "counselors_directory"]]

\* documents a caller hands to add_documents: one long enough to be split in
\* two, and one with empty content
HandoutDoc ==
    [content |-> Text("handout", 620, 0),
     metadata |-> [type |-> "handout", source |-> "workshop"]]

EmptyDoc == [content |-> Text("", 0, 0), metadata |-> [type |-> "empty"]]

\* texts a caller hands to add_text / add_custom_knowledge
NoteA == Text("note_a", 1, 2)
NoteB == Text("note_b", 150, 0)
\* a text the provider embeds as the all-zero vector
NoteZ == Text("note_z", 5, 0)
BlankText == Text("", 0, 3)

HighMeta == [type |-> "custom", priority |-> "high"]
BadTypeMeta == [type |-> PyNone, source |-> "user_added"]
\* the default of add_custom_knowledge
CustomMeta == [type |-> "custom", source |-> "user_added"]

\* RecursiveCharacterTextSplitter(chunk_size=500, chunk_overlap=50).split_text:
\* content of at most 500 characters is one stripped chunk; the handout is
\* cut in two overlapping chunks; empty content gives no chunk
SplitText(content) ==
    IF content.len = 0 THEN <<>>
    ELSE IF PyLen(content) <= ChunkSize THEN <<Strip(content)>>
    ELSE << Text(content.body \o "#0", ChunkSize, 0),
            Text(content.body \o "#1", content.len - ChunkSize + ChunkOverlap, 0) >>

(***************************** embedding ************************************)
\* self.embeddings.embed_query(text) of the provider, by content
TextVec(body) ==
    CASE body = "depression" -> 2
      [] body = "crisis_resource" -> 5
      [] body = "counselor" -> 9
      [] body = "handout#0" -> 1
      [] body = "handout#1" -> 8
      [] body = "note_a" -> 7
      [] body = "note_b" -> 1
      [] body = "note_z" -> ZeroVec
      [] OTHER -> 4

\* an embed whose except clause returns a vector of ones
EmbedExceptOnes(t, up) ==
    IF IsBlank(t) THEN ZeroVec
    ELSE IF up THEN TextVec(Strip(t).body)
    ELSE 1

\* embed(text): up is FALSE when the provider call raises
Embed(t, up) ==
    IF IsBlank(t) THEN ZeroVec
    ELSE IF up THEN TextVec(Strip(t).body)
    ELSE ZeroVec

(***************************** the store ************************************)
Store(i, t, m) == [index |-> i, texts |-> t, metadata |-> m]
EmptyStore == Store(<<>>, <<>>, <<>>)

\* an add_text that inserts in front
AddTextToFront(st, t, opt, up) ==
    IF IsBlank(t) \/ Embed(Strip(t), up) = ZeroVec THEN st
    ELSE Store(<<Embed(Strip(t), up)>> \o st.index,
               <<Strip(t)>> \o st.texts,
               <<IF opt = None THEN NoMeta ELSE opt[1]>> \o st.metadata)

\* an add_text without the np.any(vec) test
AddTextToUnguarded(st, t, opt, up) ==
    IF IsBlank(t) THEN st
    ELSE Store(Append(st.index, Embed(Strip(t), up)),
               Append(st.texts, Strip(t)),
               Append(st.metadata, IF opt = None THEN NoMeta ELSE opt[1]))

\* add_text(text, metadata) on store st; opt is the Optional metadata
AddTextTo(st, t, opt, up) ==
    IF IsBlank(t) THEN st
    ELSE LET vec == Embed(Strip(t), up)
         IN  IF vec # ZeroVec
             THEN Store(Append(st.index, vec),
                        Append(st.texts, Strip(t)),
                        Append(st.metadata, IF opt = None THEN NoMeta ELSE opt[1]))
             ELSE st

\* an add_documents that numbers the chunks from 1
ChunksOfFromOne(doc) ==
    LET content == Get(doc, "content", Text("", 0, 0))
        meta == Get(doc, "metadata", NoMeta)
        chunks == IF PyLen(content) > 0 THEN SplitText(content) ELSE <<>>
    IN  [i \in 1..Len(chunks) |->
            [text |-> chunks[i],
             metadata |-> ("chunk_id" :> i) @@
                          ("total_chunks" :> Len(chunks)) @@ meta]]

\* the (chunk, chunk_metadata) pairs add_documents makes of one document
ChunksOf(doc) ==
    LET content == Get(doc, "content", Text("", 0, 0))
        meta == Get(doc, "metadata", NoMeta)
        chunks == IF PyLen(content) > 0 THEN SplitText(content) ELSE <<>>
    IN  [i \in 1..Len(chunks) |->
            [text |-> chunks[i],
             metadata |-> ("chunk_id" :> (i - 1)) @@
                          ("total_chunks" :> Len(chunks)) @@ meta]]

RECURSIVE Flatten(_)
Flatten(ss) == IF ss = <<>> THEN <<>> ELSE Head(ss) \o Flatten(Tail(ss))

RECURSIVE AddChunks(_, _, _)
\* the add_text calls of add_documents; down is the set of chunk bodies whose
\* embedding call fails
AddChunks(st, cs, down) ==
    IF cs = <<>> THEN st
    ELSE AddChunks(AddTextTo(st, Head(cs).text, Some(Head(cs).metadata),
                             Head(cs).text.body \notin down),
                   Tail(cs), down)

\* add_documents(documents)
AddDocumentsTo(st, docs, down) ==
    AddChunks(st, Flatten([i \in 1..Len(docs) |-> ChunksOf(docs[i])]), down)

(***************************** statistics ***********************************)
\* a metadata_keys that concatenates the key lists without set()
MetadataKeysRepeated(md) ==
    LET ks == UNION {DOMAIN md[i] : i \in 1..Len(md)}
    IN  [k \in ks |-> Cardinality({i \in 1..Len(md) : k \in DOMAIN md[i]})]

\* list(set().union(*(d.keys() for d in self.metadata if d))): the list as
\* the number of times each key occurs in it (its order is not modelled)
MetadataKeys(md) ==
    LET ks == UNION {DOMAIN md[i] : i \in {j \in 1..Len(md) : md[j] # NoMeta}}
    IN  [k \in ks |-> 1]

\* get_stats()
GetStatsOf(st) ==
    [total_documents |-> Len(st.texts),
     index_size |-> Len(st.index),
     dimension |-> Dimension,
     metadata_keys |-> MetadataKeys(st.metadata)]

(***************************** search ***************************************)
\* the query vectors of the provider
QueryVec(q) ==
    CASE q = <<"s","a","d">> -> 3
      [] q = <<"H","a","r","m">> -> 5
      [] q = <<"d","i","e","t">> -> 6
      [] q = <<"f","a","r">> -> 13
      [] OTHER -> 4

\* embed(query.strip())
EmbedQuery(q, up) ==
    IF QStrip(q) = <<>> THEN ZeroVec
    ELSE IF up THEN QueryVec(QStrip(q))
    ELSE ZeroVec

\* IndexFlatL2: squared L2 distance
Distance(v, w) == (v - w) * (v - w)

\* a normalization that divides the distance by 2.0
SimilarityOverTwo(d) == IF 100 - 10 * d > 0 THEN 100 - 10 * d ELSE 0

\* max(0, 1 - (distance / 4.0)), in hundredths, of a distance in units of 0.2
Similarity(d) == IF 100 - 5 * d > 0 THEN 100 - 5 * d ELSE 0

RECURSIVE NearestFirst(_, _, _, _)
\* the ways to list the m nearest of the positions in rest, nearest first;
\* which of two equally distant vectors comes first is FAISS's choice
NearestFirst(idx, qv, rest, m) ==
    IF m = 0 \/ rest = {} THEN {<<>>}
    ELSE LET nearest == {p \in rest : \A o \in rest :
                            Distance(idx[p], qv) <= Distance(idx[o], qv)}
         IN  UNION { { <<p>> \o s : s \in NearestFirst(idx, qv, rest \ {p}, m - 1) } :
                     p \in nearest }

\* index.search(vec, kk): the position sequences FAISS may return.  Position
\* 0 stands for the label -1 FAISS pads with when kk > ntotal.
FaissSearch(idx, qv, kk) ==
    { [i \in 1..kk |-> IF i <= Len(s) THEN s[i] ELSE 0] :
        s \in NearestFirst(idx, qv, 1..Len(idx), kk) }

RECURSIVE InsertDesc(_, _)
\* insert e behind every element whose similarity is not smaller (stable)
InsertDesc(sorted, e) ==
    IF sorted = <<>> THEN <<e>>
    ELSE IF Head(sorted).r.similarity >= e.r.similarity
         THEN <<Head(sorted)>> \o InsertDesc(Tail(sorted), e)
         ELSE <<e>> \o sorted

RECURSIVE InsertAsc(_, _)
InsertAsc(sorted, e) ==
    IF sorted = <<>> THEN <<e>>
    ELSE IF Head(sorted).r.similarity <= e.r.similarity
         THEN <<Head(sorted)>> \o InsertAsc(Tail(sorted), e)
         ELSE <<e>> \o sorted

RECURSIVE SortAsc(_)
\* the sort without reverse=True
SortAsc(rs) ==
    IF rs = <<>> THEN <<>>
    ELSE InsertAsc(SortAsc(SubSeq(rs, 1, Len(rs) - 1)), rs[Len(rs)])

RECURSIVE SortDesc(_)
\* results.sort(key=lambda x: x['similarity'], reverse=True)
SortDesc(rs) ==
    IF rs = <<>> THEN <<>>
    ELSE InsertDesc(SortDesc(SubSeq(rs, 1, Len(rs) - 1)), rs[Len(rs)])

\* the loop of search with similarity > score_threshold
KeptStrict(st, qv, found, thr) ==
    LET ok(p) == /\ p >= 1 /\ p <= Len(st.texts)
                 /\ Similarity(Distance(st.index[p], qv)) > thr
    IN  SelectSeq(found, ok)

\* the positions the loop of search keeps of FAISS's answer
Kept(st, qv, found, thr) ==
    LET ok(p) == /\ p >= 1 /\ p <= Len(st.texts)
                 /\ Similarity(Distance(st.index[p], qv)) >= thr
    IN  SelectSeq(found, ok)

\* the loop of search over FAISS's answer: entries [r, pos], r the result
\* dict and pos the position it was read from (history, not part of r)
Hits(st, qv, found, thr) ==
    LET keep == Kept(st, qv, found, thr)
    IN  [i \in 1..Len(keep) |->
            [r |-> [text |-> st.texts[keep[i]],
                    metadata |-> st.metadata[keep[i]],
                    similarity |-> Similarity(Distance(st.index[keep[i]], qv)),
                    distance |-> Distance(st.index[keep[i]], qv)],
             pos |-> keep[i]]]

\* search reaches self.index.search: neither guard in front of it returned
FaissReached(st, q, up) ==
    /\ ~(QStrip(q) = <<>> \/ Len(st.texts) = 0)
    /\ EmbedQuery(q, up) # ZeroVec

\* a search without the np.any(vec) guard: the zero vector is looked up
SearchInZeroLookedUp(st, q, k, thr, up, faissOk) ==
    IF QStrip(q) = <<>> \/ Len(st.texts) = 0 THEN {<<>>}
    ELSE LET vec == EmbedQuery(q, up)
             kk == IF k < Len(st.texts) THEN k ELSE Len(st.texts)
         IN  IF kk < 1 \/ ~faissOk THEN {<<>>}
             ELSE { IF \E i \in 1..Len(Kept(st, vec, found, thr)) :
                          Kept(st, vec, found, thr)[i] > Len(st.metadata)
                    THEN <<>>
                    ELSE SortDesc(Hits(st, vec, found, thr)) :
                        found \in FaissSearch(st.index, vec, kk) }

\* search(query, k, score_threshold): the lists of [r, pos] it may return.
\* up: the provider answers; faissOk: index.search does not raise.  Any
\* exception (k < 1, a failing index, a position without metadata) gives [].
SearchIn(st, q, k, thr, up, faissOk) ==
    IF QStrip(q) = <<>> \/ Len(st.texts) = 0 THEN {<<>>}
    ELSE LET vec == EmbedQuery(q, up)
             kk == IF k < Len(st.texts) THEN k ELSE Len(st.texts)
         IN  IF vec = ZeroVec THEN {<<>>}
             ELSE IF kk < 1 \/ ~faissOk THEN {<<>>}
             ELSE { IF \E i \in 1..Len(Kept(st, vec, found, thr)) :
                          Kept(st, vec, found, thr)[i] > Len(st.metadata)
                    THEN <<>>
                    ELSE SortDesc(Hits(st, vec, found, thr)) :
                        found \in FaissSearch(st.index, vec, kk) }

Results(hits) == [i \in 1..Len(hits) |-> hits[i].r]
Positions(hits) == [i \in 1..Len(hits) |-> hits[i].pos]

(***************************** retrieval ************************************)
Answer(k, b, n) == [kind |-> k, hits |-> <<>>, blocks |-> b, len |-> n]

\* _get_default_context(query)
DefaultContext(q) ==
    IF \E kw \in DefaultKeywords : Contains(Lower(q), kw)
    THEN Answer("default_crisis", <<>>, CrisisBlockLen)
    ELSE Answer("default_generic", <<>>, GenericBlockLen)

\* the positions in results of crisis_results, in order
CrisisIdx(results, q) ==
    SelectSeq([i \in 1..Len(results) |-> i],
              LAMBDA i : Get(results[i].metadata, "priority", PyNone) = "high"
                         \/ QueryIsCrisis(q))

\* an other_results that keeps every result
OtherIdxAll(results, q) == [i \in 1..Len(results) |-> i]

\* the positions in results of other_results: r not in crisis_results
OtherIdx(results, q) ==
    LET crisis == CrisisIdx(results, q)
    IN  SelectSeq([i \in 1..Len(results) |-> i],
                  LAMBDA i : \A j \in 1..Len(crisis) :
                                 results[crisis[j]] # results[i])

\* the results in search order, without the partition
PackOrderUnpartitioned(results, q) == [i \in 1..Len(results) |-> i]

\* crisis_results + other_results
PackOrder(results, q) == CrisisIdx(results, q) \o OtherIdx(results, q)

\* len(source_info)
HeaderLen(meta) ==
    Len(Get(meta, "type", "info")) + 2
    + (IF Truthy(Get(meta, "source", PyNone))
       THEN Len(meta["source"]) + 3 ELSE 0)

Block(i, h, chars, trunc) ==
    [src |-> i, hdr |-> h, chars |-> chars, truncated |-> trunc,
     len |-> h + 1 + chars + (IF trunc THEN EllipsisLen ELSE 0)]

RECURSIVE PackLoopSkip(_, _, _, _, _, _)
\* a loop that skips a block that does not fit and goes on with the next
PackLoopSkip(results, order, n, cur, parts, L) ==
    IF n > Len(order) \/ cur >= L THEN [raised |-> FALSE, parts |-> parts]
    ELSE LET result == results[order[n]]
             text == Strip(result.text)
             meta == result.metadata
         IN  IF Get(meta, "type", "info") = PyNone
             THEN [raised |-> TRUE, parts |-> parts]
             ELSE LET hl == HeaderLen(meta)
                      flen == hl + 1 + text.len
                  IN  IF cur + flen <= L
                      THEN PackLoopSkip(results, order, n + 1, cur + flen,
                               Append(parts, Block(order[n], hl, text.len, FALSE)), L)
                      ELSE PackLoopSkip(results, order, n + 1, cur, parts, L)

RECURSIVE PackLoop(_, _, _, _, _, _)
\* the loop over crisis_results + other_results from the n-th on;
\* cur is current_length, parts is context_parts
PackLoop(results, order, n, cur, parts, L) ==
    IF n > Len(order) \/ cur >= L THEN [raised |-> FALSE, parts |-> parts]
    ELSE LET result == results[order[n]]
             text == Strip(result.text)
             meta == result.metadata
         IN  IF Get(meta, "type", "info") = PyNone
             THEN [raised |-> TRUE, parts |-> parts]
             ELSE LET hl == HeaderLen(meta)
                      flen == hl + 1 + text.len
                      remaining_space == L - cur - hl - FragmentReserve
                  IN  IF cur + flen <= L
                      THEN PackLoop(results, order, n + 1, cur + flen,
                               Append(parts, Block(order[n], hl, text.len, FALSE)), L)
                      ELSE IF remaining_space > MinFragment
                      THEN [raised |-> FALSE,
                            parts |-> Append(parts,
                               Block(order[n], hl,
                                     IF remaining_space < text.len
                                     THEN remaining_space ELSE text.len, TRUE))]
                      ELSE [raised |-> FALSE, parts |-> parts]

\* "\n\n---\n\n".join(context_parts): its length
RECURSIVE SumLen(_)
SumLen(parts) == IF parts = <<>> THEN 0 ELSE Head(parts).len + SumLen(Tail(parts))

JoinLen(parts) ==
    IF parts = <<>> THEN 0 ELSE SumLen(parts) + SeparatorLen * (Len(parts) - 1)

\* a body that falls back to the default context when nothing was packed
RetrieveBodyFallback(results, q, L) ==
    IF results = <<>> THEN DefaultContext(q)
    ELSE LET loop == PackLoop(results, PackOrder(results, q), 1, 0, <<>>, L)
         IN  IF loop.raised THEN Answer("raised", <<>>, 0)
             ELSE IF loop.parts = <<>> THEN DefaultContext(q)
             ELSE Answer("packed", loop.parts, JoinLen(loop.parts))

\* the try block of retrieve_knowledge after the lazy load, given what search
\* returned; kind "raised" is an exception leaving the block
RetrieveBody(results, q, L) ==
    IF results = <<>> THEN DefaultContext(q)
    ELSE LET loop == PackLoop(results, PackOrder(results, q), 1, 0, <<>>, L)
         IN  IF loop.raised THEN Answer("raised", <<>>, 0)
             ELSE Answer("packed", loop.parts, JoinLen(loop.parts))

\* retrieve_knowledge without its except clause
RetrieveHandlerReraise(body, q) == body

\* except Exception: return self._get_default_context(query)
RetrieveHandler(body, q) == IF body.kind = "raised" THEN DefaultContext(q) ELSE body

\* retrieve_knowledge from the search results on
RetrieveAnswer(results, q, L) == RetrieveHandler(RetrieveBody(results, q, L), q)

(***************************** knowledge loading ****************************)
\* a _load_knowledge_base that adds the static documents before it reads
\* counselors.json
LoadKnowledgeBaseEarlyAdd(st, counselors, down) ==
    IF counselors = "malformed"
    THEN [st |-> AddDocumentsTo(st, StaticDocs, down), loaded |-> FALSE]
    ELSE [st |-> AddDocumentsTo(st,
                    StaticDocs \o (IF counselors = "ok" THEN <<CounselorDoc>> ELSE <<>>),
                    down),
          loaded |-> TRUE]

\* _load_knowledge_base: counselors is the state of resources/counselors.json
\* ("absent", "ok", "malformed"); a malformed file raises before
\* add_documents is reached
LoadKnowledgeBase(st, counselors, down) ==
    IF counselors = "malformed" THEN [st |-> st, loaded |-> FALSE]
    ELSE [st |-> AddDocumentsTo(st,
                    StaticDocs \o (IF counselors = "ok" THEN <<CounselorDoc>> ELSE <<>>),
                    down),
          loaded |-> TRUE]

KnowledgeBodies == {"depression", "crisis_resource", "counselor"}

(***************************** persistence **********************************)
AbsentFile == [state |-> "absent"]
CorruptFile == [state |-> "corrupt"]
\* faiss.write_index(self.index, index_path)
IndexFile(st) == [state |-> "ok", vecs |-> st.index]
\* a dump that stores the metadata under another key than _load_index reads
DataFileWrongKey(st) ==
    [state |-> "ok",
     data |-> [texts |-> st.texts, meta |-> st.metadata, dimension |-> Dimension]]

\* pickle.dump({'texts', 'metadata', 'dimension'}, f)
DataFile(st) ==
    [state |-> "ok",
     data |-> [texts |-> st.texts, metadata |-> st.metadata, dimension |-> Dimension]]

\* save_index: what persist_path holds afterwards.  outcome "ok": both files
\* written; "after_index": an exception once index.faiss is written and
\* before data.pkl is opened; "in_dump": an exception inside pickle.dump,
\* which leaves data.pkl truncated
SaveIndexTo(dk, st, outcome) ==
    CASE outcome = "ok" -> [index_faiss |-> IndexFile(st), data_pkl |-> DataFile(st)]
      [] outcome = "after_index" -> [dk EXCEPT !.index_faiss = IndexFile(st)]
      [] outcome = "in_dump" -> [index_faiss |-> IndexFile(st), data_pkl |-> CorruptFile]

\* a _load_index whose except clause does not reset self.index
LoadIndexNoReset(dk) ==
    IF dk.index_faiss.state # "absent" /\ dk.data_pkl.state # "absent"
    THEN IF dk.index_faiss.state = "corrupt" THEN EmptyStore
         ELSE IF dk.data_pkl.state = "corrupt"
         THEN Store(dk.index_faiss.vecs, <<>>, <<>>)
         ELSE Store(dk.index_faiss.vecs,
                    Get(dk.data_pkl.data, "texts", <<>>),
                    Get(dk.data_pkl.data, "metadata", <<>>))
    ELSE EmptyStore

\* _load_index on the freshly initialised (empty) store
LoadIndex(dk) ==
    IF dk.index_faiss.state # "absent" /\ dk.data_pkl.state # "absent"
    THEN IF dk.index_faiss.state = "corrupt" \/ dk.data_pkl.state = "corrupt"
         THEN EmptyStore
         ELSE Store(dk.index_faiss.vecs,
                    Get(dk.data_pkl.data, "texts", <<>>),
                    Get(dk.data_pkl.data, "metadata", <<>>))
    ELSE EmptyStore

EmptyDisk == [index_faiss |-> AbsentFile, data_pkl |-> AbsentFile]

(***************************** inputs ***************************************)
Queries ==
    { <<>>, <<" ">>, <<"s","a","d">>, <<"H","a","r","m">>, <<"d","i","e","t">> }
WordQueries == {q \in Queries : QStrip(q) # <<>>}

Thresholds == {RetrieveThreshold, DefaultThreshold}

\* the state of resources/counselors.json and the chunk bodies whose embedding
\* call fails, for one run of _load_knowledge_base
LoadEnvs ==
    { [counselors |-> "absent", down |-> {}],
      [counselors |-> "ok", down |-> {"crisis_resource"}],
      [counselors |-> "malformed", down |-> {}] }
NoLoad == [counselors |-> "absent", down |-> {}]

SaveOutcomes == {"ok", "after_index", "in_dump"}

\* (text, metadata, provider answers) of the add_text calls tried
AddTextInputs ==
    { <<NoteA, None, TRUE>>, <<BlankText, None, TRUE>>, <<NoteA, None, FALSE>>,
      <<NoteZ, None, TRUE>> }

\* (text, provider answers) of the embed calls tried
EmbedInputs ==
    { <<t, up>> : t \in {NoteA, NoteZ, BlankText, Text("", 0, 0)}, up \in BOOLEAN }

\* (content, metadata, provider answers) of the add_custom_knowledge calls tried
AddCustomInputs ==
    { <<NoteB, None, TRUE>>, <<NoteB, Some(BadTypeMeta), TRUE>>,
      <<NoteB, None, FALSE>> }

\* (query, k, score_threshold, fault) of the search calls tried; fault is what
\* goes wrong inside search: the provider call ("embed") or index.search ("faiss")
SearchInputs ==
    { <<<<"s","a","d">>, k, thr, "none">> : k \in {0, 1, MaxK}, thr \in Thresholds }
    \cup { <<<<"d","i","e","t">>, MaxK, thr, "none">> : thr \in Thresholds }
    \cup { <<q, MaxK, DefaultThreshold, "none">> : q \in Queries \ WordQueries }
    \cup { <<<<"s","a","d">>, MaxK, RetrieveThreshold, f>> : f \in {"embed", "faiss"} }
    \cup { <<<<"f","a","r">>, MaxK, 0, "none">> }

\* (query, max_results, context_length, fault) of the retrieve_knowledge calls tried
RetrieveInputs ==
    { <<q, k, DefaultContextLength, "none">> : q \in WordQueries, k \in {1, MaxK} }
    \cup { <<q, MaxK, 300, "none">> : q \in WordQueries }
    \cup { <<q, MaxK, DefaultContextLength, "none">> : q \in Queries \ WordQueries }
    \cup { <<<<"s","a","d">>, MaxK, DefaultContextLength, f>> : f \in {"embed", "faiss"} }

(***************************** state ****************************************)
cur == Store(index, texts, metadata)

\* no concurrent call is under way
NoPar == [pc |-> <<>>, loc |-> <<>>, out |-> <<>>, arg |-> <<>>]

\* no prompt is being built
NoLlm == [query |-> <<>>, context |-> <<>>, history |-> None, mode |-> <<>>,
          prompt |-> <<>>, called |-> FALSE]

\* no metadata object is tracked by reference
NoHeap == [objs |-> <<>>, docs |-> <<>>]

NoRet == [kind |-> "none", hits |-> <<>>, blocks |-> <<>>, len |-> 0]

Op(name) ==
    [op |-> name, q |-> <<>>, t |-> Text("", 0, 0), k |-> 0, thr |-> 0, L |-> 0,
     fault |-> "none", outcome |-> "none", loaded |-> EmptyStore,
     afterSave |-> FALSE]

Fits(st) == Len(st.index) <= MaxStore /\ Len(st.texts) <= MaxStore

SetStore(st) ==
    /\ index' = st.index
    /\ texts' = st.texts
    /\ metadata' = st.metadata

\* MentalHealthRAG(persist_path) on an empty persist_path
Init ==
    \E env \in LoadEnvs :
        LET ld == LoadKnowledgeBase(LoadIndex(EmptyDisk), env.counselors, env.down)
        IN  /\ index = ld.st.index
            /\ texts = ld.st.texts
            /\ metadata = ld.st.metadata
            /\ rag = TRUE
            /\ knowledge_loaded = ld.loaded
            /\ disk = EmptyDisk
            /\ ret = NoRet
            /\ last = [Op("init") EXCEPT !.outcome = env.counselors]
            /\ prevSnap = EmptyStore
            /\ newSnap = EmptyStore
            /\ nops = 0
            /\ pk_results = <<>>
            /\ pk_query = <<>>
            /\ par = NoPar
            /\ heap = NoHeap
            /\ llm = NoLlm

Step == nops < MaxOps /\ nops' = nops + 1

\* a call that leaves the store as it is ends the behaviour: what can follow
\* it is what can follow the state it started from
QueryStep(unchanged) ==
    nops < MaxOps /\ nops' = IF unchanged THEN MaxOps ELSE nops + 1

(***************************** store operations *****************************)
\* EmbeddingModel.add_text(text, metadata)
AddText(t, opt, up) ==
    /\ QueryStep(AddTextTo(cur, t, opt, up) = cur)
    /\ Fits(AddTextTo(cur, t, opt, up))
    /\ SetStore(AddTextTo(cur, t, opt, up))
    /\ ret' = NoRet
    /\ last' = [Op("add_text") EXCEPT
                   !.t = t, !.fault = IF up THEN "none" ELSE "embed"]
    /\ UNCHANGED <<rag, knowledge_loaded, disk, prevSnap, newSnap, pk_results, pk_query, par, heap, llm>>

\* EmbeddingModel.embed(text): the vector returned, its dimension, and
\* whether embed_query of the provider was reached
EmbedCall(t, up) ==
    /\ QueryStep(TRUE)
    /\ ret' = [kind |-> "vector", hits |-> <<>>, blocks |-> <<>>, len |-> 0,
               vec |-> Embed(t, up), dim |-> Dimension, called |-> ~IsBlank(t)]
    /\ last' = [Op("embed") EXCEPT !.t = t, !.fault = IF up THEN "none" ELSE "embed"]
    /\ UNCHANGED <<index, texts, metadata, rag, knowledge_loaded, disk,
                   prevSnap, newSnap, pk_results, pk_query, par, heap, llm>>

\* EmbeddingModel.add_documents(documents)
AddDocuments(docs, down) ==
    /\ Step
    /\ Fits(AddDocumentsTo(cur, docs, down))
    /\ SetStore(AddDocumentsTo(cur, docs, down))
    /\ ret' = NoRet
    /\ last' = [Op("add_documents") EXCEPT
                   !.fault = IF down = {} THEN "none" ELSE "embed"]
    /\ UNCHANGED <<rag, knowledge_loaded, disk, prevSnap, newSnap, pk_results, pk_query, par, heap, llm>>

\* MentalHealthRAG.add_custom_knowledge(content, metadata)
AddCustomKnowledge(t, opt, up) ==
    /\ rag
    /\ LET meta == IF opt = None THEN Some(CustomMeta) ELSE opt
       IN  /\ QueryStep(AddTextTo(cur, t, meta, up) = cur)
           /\ Fits(AddTextTo(cur, t, meta, up))
           /\ SetStore(AddTextTo(cur, t, meta, up))
    /\ ret' = NoRet
    /\ last' = [Op("add_custom_knowledge") EXCEPT
                   !.t = t, !.fault = IF up THEN "none" ELSE "embed"]
    /\ UNCHANGED <<rag, knowledge_loaded, disk, prevSnap, newSnap, pk_results, pk_query, par, heap, llm>>

\* EmbeddingModel.clear_index()
ClearIndex ==
    /\ Step
    /\ SetStore(EmptyStore)
    /\ ret' = NoRet
    /\ last' = Op("clear_index")
    /\ UNCHANGED <<rag, knowledge_loaded, disk, prevSnap, newSnap, pk_results, pk_query, par, heap, llm>>

\* EmbeddingModel.search(query, k, score_threshold)
Search(q, k, thr, fault) ==
    /\ QueryStep(TRUE)
    /\ \E hits \in SearchIn(cur, q, k, thr, fault # "embed", fault # "faiss") :
           ret' = [kind |-> "hits", hits |-> hits, blocks |-> <<>>, len |-> 0,
                   lookup |-> FaissReached(cur, q, fault # "embed")]
    /\ last' = [Op("search") EXCEPT !.q = q, !.k = k, !.thr = thr, !.fault = fault]
    /\ UNCHANGED <<index, texts, metadata, rag, knowledge_loaded, disk,
                   prevSnap, newSnap, pk_results, pk_query, par, heap, llm>>

\* EmbeddingModel.get_stats() / MentalHealthRAG.get_stats()
GetStats ==
    /\ QueryStep(TRUE)
    /\ ret' = [kind |-> "stats", hits |-> <<>>, blocks |-> <<>>, len |-> 0,
               stats |-> GetStatsOf(cur)]
    /\ last' = Op("get_stats")
    /\ UNCHANGED <<index, texts, metadata, rag, knowledge_loaded, disk,
                   prevSnap, newSnap, pk_results, pk_query, par, heap, llm>>

\* EmbeddingModel.save_index() / MentalHealthRAG.save_knowledge_base()
SaveIndex(outcome) ==
    /\ Step
    /\ disk' = SaveIndexTo(disk, cur, outcome)
    /\ newSnap' = cur
    /\ prevSnap' = IF outcome = "ok" THEN cur ELSE prevSnap
    /\ ret' = NoRet
    /\ last' = [Op("save_index") EXCEPT !.outcome = outcome]
    /\ UNCHANGED <<index, texts, metadata, rag, knowledge_loaded, pk_results, pk_query, par, heap, llm>>

\* EmbeddingModel(persist_path): a fresh store on the same persist_path
ConstructStore ==
    /\ Step
    /\ SetStore(LoadIndex(disk))
    /\ rag' = FALSE
    /\ knowledge_loaded' = FALSE
    /\ ret' = NoRet
    /\ last' = [Op("construct_store") EXCEPT
                   !.loaded = LoadIndex(disk),
                   !.afterSave = (last.op = "save_index" /\ last.outcome = "ok")]
    /\ UNCHANGED <<disk, prevSnap, newSnap, pk_results, pk_query, par, heap, llm>>

\* MentalHealthRAG(persist_path): a fresh Retriever on the same persist_path
ConstructRetriever(env) ==
    /\ Step
    /\ LET ld == LoadKnowledgeBase(LoadIndex(disk), env.counselors, env.down)
       IN  /\ Fits(ld.st)
           /\ SetStore(ld.st)
           /\ knowledge_loaded' = ld.loaded
    /\ rag' = TRUE
    /\ ret' = NoRet
    /\ last' = [Op("construct_retriever") EXCEPT
                   !.outcome = env.counselors,
                   !.loaded = LoadIndex(disk),
                   !.afterSave = (last.op = "save_index" /\ last.outcome = "ok")]
    /\ UNCHANGED <<disk, prevSnap, newSnap, pk_results, pk_query, par, heap, llm>>

\* a retrieve_knowledge that loads the knowledge base on every call
RetrieveKnowledgeReload(q, max_results, L, fault, env) ==
    /\ rag
    /\ knowledge_loaded => env = NoLoad
    /\ LET ld == LoadKnowledgeBase(cur, env.counselors, env.down)
       IN  /\ QueryStep(ld.st = cur)
           /\ Fits(ld.st)
           /\ SetStore(ld.st)
           /\ knowledge_loaded' = ld.loaded
           /\ \E hits \in SearchIn(ld.st, q, max_results, RetrieveThreshold,
                                   fault # "embed", fault # "faiss") :
                 LET a == RetrieveAnswer(Results(hits), q, L)
                 IN  ret' = [kind |-> a.kind, hits |-> hits, blocks |-> a.blocks,
                             len |-> a.len,
                             lookup |-> FaissReached(ld.st, q, fault # "embed")]
    /\ last' = [Op("retrieve_knowledge") EXCEPT
                   !.q = q, !.k = max_results, !.thr = RetrieveThreshold,
                   !.L = L, !.fault = fault,
                   !.outcome = IF knowledge_loaded THEN "loaded"
                               ELSE IF env.counselors = "malformed" THEN "load_failed"
                               ELSE "lazy_load"]
    /\ UNCHANGED <<rag, disk, prevSnap, newSnap, pk_results, pk_query, par, heap, llm>>

\* MentalHealthRAG.retrieve_knowledge(query, max_results, context_length)
RetrieveKnowledge(q, max_results, L, fault, env) ==
    /\ rag
    /\ knowledge_loaded => env = NoLoad
    /\ LET ld == IF knowledge_loaded THEN [st |-> cur, loaded |-> TRUE]
                 ELSE LoadKnowledgeBase(cur, env.counselors, env.down)
       IN  /\ QueryStep(ld.st = cur)
           /\ Fits(ld.st)
           /\ SetStore(ld.st)
           /\ knowledge_loaded' = ld.loaded
           /\ \E hits \in SearchIn(ld.st, q, max_results, RetrieveThreshold,
                                   fault # "embed", fault # "faiss") :
                 LET a == RetrieveAnswer(Results(hits), q, L)
                 IN  ret' = [kind |-> a.kind, hits |-> hits, blocks |-> a.blocks,
                             len |-> a.len,
                             lookup |-> FaissReached(ld.st, q, fault # "embed")]
    /\ last' = [Op("retrieve_knowledge") EXCEPT
                   !.q = q, !.k = max_results, !.thr = RetrieveThreshold,
                   !.L = L, !.fault = fault,
                   !.outcome = IF knowledge_loaded THEN "loaded"
                               ELSE IF env.counselors = "malformed" THEN "load_failed"
                               ELSE "lazy_load"]
    /\ UNCHANGED <<rag, disk, prevSnap, newSnap, pk_results, pk_query, par, heap, llm>>

Next ==
    \/ \E a \in EmbedInputs : EmbedCall(a[1], a[2])
    \/ \E a \in AddTextInputs : AddText(a[1], a[2], a[3])
    \/ AddDocuments(<<HandoutDoc, EmptyDoc>>, {})
    \/ \E a \in AddCustomInputs : AddCustomKnowledge(a[1], a[2], a[3])
    \/ ClearIndex
    \/ \E a \in SearchInputs : Search(a[1], a[2], a[3], a[4])
    \/ GetStats
    \/ \E outcome \in SaveOutcomes : SaveIndex(outcome)
    \/ ConstructStore
    \/ \E env \in LoadEnvs : ConstructRetriever(env)
    \/ \E a \in RetrieveInputs, env \in LoadEnvs :
          RetrieveKnowledge(a[1], a[2], a[3], a[4], env)

Spec == Init /\ [][Next]_vars

(***************************** the packer alone *****************************)
\* The result dict search builds for a stored (text, metadata) at distance d
ResultOf(t, m, d) ==
    [text |-> Strip(t), metadata |-> m, similarity |-> Similarity(d), distance |-> d]

\* a short note stored by add_custom_knowledge, at the threshold
Filler == ResultOf(NoteA, CustomMeta, 16)

\* results of other kinds: chunks of the corpus, notes with and without
\* priority, a note whose type is None
Varied ==
    { ResultOf(ChunksOf(DepressionDoc)[1].text, ChunksOf(DepressionDoc)[1].metadata, 1),
      ResultOf(ChunksOf(CrisisDoc)[1].text, ChunksOf(CrisisDoc)[1].metadata, 4),
      ResultOf(NoteB, CustomMeta, 4),
      ResultOf(NoteB, BadTypeMeta, 9),
      ResultOf(NoteA, HighMeta, 9) }

\* len of the block packed for Filler
FillerBlockLen == HeaderLen(CustomMeta) + 1 + NoteA.len

PackLengths ==
    {0, 40, 300, DefaultContextLength} \cup
    {n * FillerBlockLen : n \in (MaxPackLen - 1)..MaxPackLen}

NumVaried(rs) == Cardinality({i \in 1..Len(rs) : rs[i] # Filler})

InitPack ==
    /\ index = <<>>
    /\ texts = <<>>
    /\ metadata = <<>>
    /\ rag = TRUE
    /\ knowledge_loaded = TRUE
    /\ disk = EmptyDisk
    /\ ret = NoRet
    /\ last = Op("init")
    /\ prevSnap = EmptyStore
    /\ newSnap = EmptyStore
    /\ nops = 0
    /\ pk_results = <<>>
    /\ pk_query \in {<<"s","a","d">>, <<"H","a","r","m">>}
    /\ par = NoPar
    /\ heap = NoHeap
    /\ llm = NoLlm

\* search returns one more result r: lists are sorted by similarity
PkAppend(r) ==
    /\ last.op = "init"
    /\ Len(pk_results) < MaxPackLen
    /\ r # Filler => NumVaried(pk_results) < MaxVaried
    /\ pk_results # <<>> => pk_results[Len(pk_results)].similarity >= r.similarity
    /\ pk_results' = Append(pk_results, r)
    /\ UNCHANGED <<index, texts, metadata, rag, knowledge_loaded, disk, ret, last,
                   prevSnap, newSnap, nops, pk_query, par, heap, llm>>

\* retrieve_knowledge from the point where search has returned pk_results
PkPack(L) ==
    /\ last.op = "init"
    /\ ret' = RetrieveAnswer(pk_results, pk_query, L)
    /\ last' = [Op("pack") EXCEPT !.q = pk_query, !.L = L]
    /\ UNCHANGED <<index, texts, metadata, rag, knowledge_loaded, disk,
                   prevSnap, newSnap, nops, pk_results, pk_query, par, heap, llm>>

NextPack ==
    \/ \E r \in Varied \cup {Filler} : PkAppend(r)
    \/ \E L \in PackLengths : PkPack(L)

SpecPack == InitPack /\ [][NextPack]_vars

(***************************** concurrent searches **************************)
\* search calls c in Calls run at the same time on one store that no other
\* operation touches; each call advances one statement group at a time.
Calls == 1..NumCalls

\* all calls keep their working variables in one place
ScratchShared(c) == 1

\* where call c keeps query, k, score_threshold, vec, indices, results: they
\* are parameters and local variables of search, one set per call
Scratch(c) == c

NoLocals ==
    [q |-> <<>>, k |-> 0, thr |-> 0, fault |-> "none", vec |-> ZeroVec,
     found |-> <<>>, i |-> 1, results |-> <<>>]

\* the stores the searches run on: the knowledge base, alone and with notes
ParStores ==
    LET kb == LoadKnowledgeBase(EmptyStore, "ok", {}).st
    IN  { kb,
          AddTextTo(kb, NoteA, None, TRUE),
          AddTextTo(AddTextTo(kb, NoteB, Some(CustomMeta), TRUE),
                    NoteB, Some(HighMeta), TRUE) }

\* (query, k, score_threshold, fault) of the concurrent calls
ParInputs ==
    { <<<<"s","a","d">>, MaxK, RetrieveThreshold, "none">>,
      <<<<"d","i","e","t">>, MaxK, DefaultThreshold, "none">>,
      <<<<"d","i","e","t">>, 1, RetrieveThreshold, "none">>,
      <<<<" ">>, MaxK, RetrieveThreshold, "none">>,
      <<<<"s","a","d">>, MaxK, RetrieveThreshold, "embed">> }

InitPar ==
    /\ \E st \in ParStores :
          /\ index = st.index
          /\ texts = st.texts
          /\ metadata = st.metadata
    /\ rag = TRUE
    /\ knowledge_loaded = TRUE
    /\ disk = EmptyDisk
    /\ ret = NoRet
    /\ last = Op("init")
    /\ prevSnap = EmptyStore
    /\ newSnap = EmptyStore
    /\ nops = 0
    /\ pk_results = <<>>
    /\ pk_query = <<>>
    /\ par = [pc |-> [c \in Calls |-> "idle"],
              loc |-> [c \in Calls |-> NoLocals],
              out |-> [c \in Calls |-> <<>>],
              arg |-> [c \in Calls |-> NoLocals]]
    /\ heap = NoHeap
    /\ llm = NoLlm

ParFrame ==
    UNCHANGED <<index, texts, metadata, rag, knowledge_loaded, disk, ret, last,
                prevSnap, newSnap, nops, pk_results, pk_query, heap, llm>>

\* call c leaves search with result res
ParReturn(c, res) ==
    par' = [par EXCEPT !.pc[c] = "done", !.out[c] = res]

\* call c moves to statement group pc with locals l
ParGoto(c, pc, l) ==
    par' = [par EXCEPT !.pc[c] = pc, !.loc[Scratch(c)] = l]

\* search(query, k, score_threshold) is entered
ParCall(c, a) ==
    /\ par.pc[c] = "idle"
    /\ LET l == [NoLocals EXCEPT !.q = a[1], !.k = a[2], !.thr = a[3], !.fault = a[4]]
       IN  par' = [par EXCEPT !.pc[c] = "guard", !.loc[Scratch(c)] = l, !.arg[c] = l]
    /\ ParFrame

\* if not query.strip() or len(self.texts) == 0: return []
ParGuard(c) ==
    /\ par.pc[c] = "guard"
    /\ LET l == par.loc[Scratch(c)]
       IN  IF QStrip(l.q) = <<>> \/ Len(texts) = 0
           THEN ParReturn(c, <<>>)
           ELSE ParGoto(c, "embed", l)
    /\ ParFrame

\* vec = self.embed(query.strip()); if not np.any(vec): return []
ParEmbed(c) ==
    /\ par.pc[c] = "embed"
    /\ LET l == par.loc[Scratch(c)]
           vec == EmbedQuery(l.q, l.fault # "embed")
       IN  IF vec = ZeroVec
           THEN ParReturn(c, <<>>)
           ELSE ParGoto(c, "faiss", [l EXCEPT !.vec = vec])
    /\ ParFrame

\* distances, indices = self.index.search(vec, min(k, len(self.texts)))
ParFaiss(c) ==
    /\ par.pc[c] = "faiss"
    /\ LET l == par.loc[Scratch(c)]
           kk == IF l.k < Len(texts) THEN l.k ELSE Len(texts)
       IN  IF kk < 1 \/ l.fault = "faiss"
           THEN ParReturn(c, <<>>)
           ELSE \E found \in FaissSearch(index, l.vec, kk) :
                   ParGoto(c, "loop", [l EXCEPT !.found = found, !.i = 1,
                                                !.results = <<>>])
    /\ ParFrame

\* one round of the loop over zip(distances[0], indices[0])
ParLoop(c) ==
    /\ par.pc[c] = "loop"
    /\ LET l == par.loc[Scratch(c)]
       IN  /\ l.i <= Len(l.found)
           /\ LET pos == l.found[l.i]
                  keep == Kept(cur, l.vec, <<pos>>, l.thr)
              IN  IF keep = <<>>
                  THEN ParGoto(c, "loop", [l EXCEPT !.i = l.i + 1])
                  ELSE IF pos > Len(metadata)
                  THEN ParReturn(c, <<>>)
                  ELSE ParGoto(c, "loop",
                          [l EXCEPT !.i = l.i + 1,
                                    !.results = l.results
                                        \o Hits(cur, l.vec, <<pos>>, l.thr)])
    /\ ParFrame

\* results.sort(key=..., reverse=True); return results
ParSort(c) ==
    /\ par.pc[c] = "loop"
    /\ LET l == par.loc[Scratch(c)]
       IN  /\ l.i > Len(l.found)
           /\ ParReturn(c, SortDesc(l.results))
    /\ ParFrame

NextPar ==
    \/ \E c \in Calls, a \in ParInputs : ParCall(c, a)
    \/ \E c \in Calls : ParGuard(c)
    \/ \E c \in Calls : ParEmbed(c)
    \/ \E c \in Calls : ParFaiss(c)
    \/ \E c \in Calls : ParLoop(c)
    \/ \E c \in Calls : ParSort(c)

SpecPar == InitPar /\ [][NextPar]_vars

(***************************** add_text during search ***********************)
\* One add_text call runs while search call 1 runs, nothing synchronizes
\* them.  par.pc[0] is the position of the add_text call, par.add its
\* arguments and its vector.

\* a list.append that inserts in front
ListInsertFront(l, x) == <<x>> \o l

\* list.append(x)
ListAppend(l, x) == Append(l, x)

\* (text, metadata, provider answers) of the add_text call
RaceAdds == { <<NoteA, None, TRUE>>, <<NoteB, Some(HighMeta), TRUE>>,
              <<NoteZ, None, TRUE>> }

InitRace ==
    /\ \E st \in ParStores :
          /\ index = st.index
          /\ texts = st.texts
          /\ metadata = st.metadata
    /\ rag = TRUE
    /\ knowledge_loaded = TRUE
    /\ disk = EmptyDisk
    /\ ret = NoRet
    /\ last = Op("init")
    /\ prevSnap = EmptyStore
    /\ newSnap = EmptyStore
    /\ nops = 0
    /\ pk_results = <<>>
    /\ pk_query = <<>>
    /\ par = [pc |-> [c \in 0..1 |-> "idle"],
              loc |-> [c \in 1..1 |-> NoLocals],
              out |-> [c \in 1..1 |-> <<>>],
              arg |-> [c \in 1..1 |-> NoLocals],
              add |-> [t |-> BlankText, opt |-> None, vec |-> ZeroVec]]
    /\ heap = NoHeap
    /\ llm = NoLlm

RaceFrame ==
    UNCHANGED <<rag, knowledge_loaded, disk, ret, last, prevSnap, newSnap, nops,
                pk_results, pk_query, heap, llm>>

\* add_text(text, metadata) up to index.add: the blank test, embed, np.any
RaceAddEnter(a) ==
    /\ par.pc[0] = "idle"
    /\ LET vec == IF IsBlank(a[1]) THEN ZeroVec ELSE Embed(Strip(a[1]), a[3])
       IN  par' = [par EXCEPT
                      !.pc[0] = IF vec = ZeroVec THEN "done" ELSE "index_add",
                      !.add = [t |-> a[1], opt |-> a[2], vec |-> vec]]
    /\ UNCHANGED <<index, texts, metadata>>
    /\ RaceFrame

\* self.index.add(np.array([vec])) begins to write the vector
RaceIndexAdd ==
    /\ par.pc[0] = "index_add"
    /\ par' = [par EXCEPT !.pc[0] = "adding"]
    /\ UNCHANGED <<index, texts, metadata>>
    /\ RaceFrame

\* self.index.add(np.array([vec])) returns
RaceIndexAdded ==
    /\ par.pc[0] = "adding"
    /\ index' = Append(index, par.add.vec)
    /\ par' = [par EXCEPT !.pc[0] = "texts"]
    /\ UNCHANGED <<texts, metadata>>
    /\ RaceFrame

\* self.texts.append(text.strip())
RaceTextsAppend ==
    /\ par.pc[0] = "texts"
    /\ texts' = ListAppend(texts, Strip(par.add.t))
    /\ par' = [par EXCEPT !.pc[0] = "metadata"]
    /\ UNCHANGED <<index, metadata>>
    /\ RaceFrame

\* self.metadata.append(metadata or {})
RaceMetadataAppend ==
    /\ par.pc[0] = "metadata"
    /\ metadata' = ListAppend(metadata, IF par.add.opt = None THEN NoMeta
                                        ELSE par.add.opt[1])
    /\ par' = [par EXCEPT !.pc[0] = "done"]
    /\ UNCHANGED <<index, texts>>
    /\ RaceFrame

\* index.search while index.add writes: FAISS does not order the two, the
\* labels it returns are any of -1 (position 0), the positions of the index
\* and the position being written
RacingAnswers(idx, kk) == [1..kk -> 0..(Len(idx) + 1)]

\* distances, indices = self.index.search(...) of search call 1
RaceFaiss ==
    IF par.pc[0] = "adding"
    THEN /\ par.pc[1] = "faiss"
         /\ LET l == par.loc[Scratch(1)]
                kk == IF l.k < Len(texts) THEN l.k ELSE Len(texts)
            IN  IF kk < 1 \/ l.fault = "faiss"
                THEN ParReturn(1, <<>>)
                ELSE \E found \in RacingAnswers(index, kk) :
                        ParGoto(1, "loop", [l EXCEPT !.found = found, !.i = 1,
                                                     !.results = <<>>])
         /\ ParFrame
    ELSE ParFaiss(1)

NextRace ==
    \/ \E a \in ParInputs : ParCall(1, a)
    \/ ParGuard(1)
    \/ ParEmbed(1)
    \/ RaceFaiss
    \/ ParLoop(1)
    \/ ParSort(1)
    \/ \E a \in RaceAdds : RaceAddEnter(a)
    \/ RaceIndexAdd
    \/ RaceIndexAdded
    \/ RaceTextsAppend
    \/ RaceMetadataAppend

SpecRace == InitRace /\ [][NextRace]_vars

(***************************** metadata by reference ************************)
\* Python dicts and lists are objects: heap.objs is the sequence of the objects
\* made so far, an address is a position in it.  A dict keeps its plain values
\* in items and, in refs, the addresses of the list objects it holds.  Here
\* the store's metadata list holds addresses.  heap.docs are the documents the
\* callers built: [content, metadata address].
DictObj(items, refs) == [kind |-> "dict", items |-> items, refs |-> refs]
ListObj(items) == [kind |-> "list", items |-> items]

\* the document of a counselor entry whose programs make the content longer
\* than one chunk
LongCounselorDoc ==
    [content |-> Text("counselor_long", 620, 42),
     metadata |-> [type |-> "counselor_info", category |-> "staff",
                   counselor_name |-> "Dr. Rao",
                   programs |-> <<"MSc Data Analytics", "MA English">>,
                   source |-> "counselors_directory"]]

MetaDocs == {CounselorDoc, LongCounselorDoc, HandoutDoc}

\* the keys whose value is a list
ListKeys(meta) == DOMAIN meta \cap {"programs"}

\* the caller builds a document: the programs list is one object, the
\* metadata dict another that refers to it
BuildDoc(h, doc) ==
    LET nested == ListKeys(doc.metadata)
        objs1 == IF nested = {} THEN h.objs
                 ELSE Append(h.objs, ListObj(doc.metadata["programs"]))
        objs2 == Append(objs1,
                        DictObj([key \in DOMAIN doc.metadata \ nested |->
                                    doc.metadata[key]],
                                [key \in nested |-> Len(objs1)]))
    IN  [objs |-> objs2,
         docs |-> Append(h.docs, [content |-> doc.content,
                                  metadata |-> Len(objs2)])]

\* metadata.copy(): a new dict with the same values and the same references
CopyDict(o) == DictObj(o.items, o.refs)

RECURSIVE StampChunks(_, _, _, _, _)
\* the loop of add_documents over the chunks of one document whose metadata
\* dict is at address parent
StampChunks(st, objs, chunks, i, parent) ==
    IF i > Len(chunks) THEN [st |-> st, objs |-> objs]
    ELSE LET copy == CopyDict(objs[parent])
             chunk_metadata ==
                 DictObj(("chunk_id" :> (i - 1)) @@
                         ("total_chunks" :> Len(chunks)) @@ copy.items,
                         copy.refs)
             objs1 == Append(objs, chunk_metadata)
         IN  StampChunks(AddTextTo(st, chunks[i], Some(Len(objs1)), TRUE),
                         objs1, chunks, i + 1, parent)

\* the dicts a caller can reach: the stored ones, which search hands out in
\* its results, and those of its own documents
Roots(h, md) ==
    {md[p] : p \in 1..Len(md)} \cup {h.docs[d].metadata : d \in 1..Len(h.docs)}

\* the value of the dict at address a, nested lists included
Deep(objs, a) ==
    [items |-> objs[a].items,
     nested |-> [key \in DOMAIN objs[a].refs |-> objs[objs[a].refs[key]].items]]

\* EmbeddingModel(persist_path) on an empty persist_path
InitMeta ==
    /\ index = <<>>
    /\ texts = <<>>
    /\ metadata = <<>>
    /\ rag = FALSE
    /\ knowledge_loaded = FALSE
    /\ disk = EmptyDisk
    /\ ret = NoRet
    /\ last = Op("init")
    /\ prevSnap = EmptyStore
    /\ newSnap = EmptyStore
    /\ nops = 0
    /\ pk_results = <<>>
    /\ pk_query = <<>>
    /\ par = NoPar
    /\ heap = NoHeap
    /\ llm = NoLlm

MetaFrame ==
    UNCHANGED <<rag, knowledge_loaded, disk, ret, prevSnap, newSnap,
                pk_results, pk_query, par, llm>>

\* a caller builds document doc and calls add_documents([doc])
MetaAddDocuments(doc) ==
    /\ Step
    /\ LET h == BuildDoc(heap, doc)
           d == h.docs[Len(h.docs)]
           chunks == IF PyLen(d.content) > 0 THEN SplitText(d.content) ELSE <<>>
           r == StampChunks(cur, h.objs, chunks, 1, d.metadata)
       IN  /\ Fits(r.st)
           /\ SetStore(r.st)
           /\ heap' = [objs |-> r.objs, docs |-> h.docs]
    /\ last' = Op("add_documents")
    /\ MetaFrame

\* a caller assigns d[key] = val on the dict d at address a
MetaSetItem(a, key, val) ==
    /\ Step
    /\ a \in Roots(heap, metadata)
    /\ heap' = [heap EXCEPT !.objs[a].items = (key :> val) @@ @]
    /\ last' = [Op("set_item") EXCEPT !.k = a]
    /\ UNCHANGED <<index, texts, metadata>>
    /\ MetaFrame

\* a caller calls d[key].append(val) on the dict d at address a
MetaAppend(a, key, val) ==
    /\ Step
    /\ a \in Roots(heap, metadata)
    /\ key \in DOMAIN heap.objs[a].refs
    /\ heap' = [heap EXCEPT !.objs[heap.objs[a].refs[key]].items = Append(@, val)]
    /\ last' = [Op("append") EXCEPT !.k = a]
    /\ UNCHANGED <<index, texts, metadata>>
    /\ MetaFrame

NextMeta ==
    \/ \E doc \in MetaDocs : MetaAddDocuments(doc)
    \/ \E a \in 1..Len(heap.objs) : MetaSetItem(a, "type", "edited")
    \/ \E a \in 1..Len(heap.objs) : MetaAppend(a, "programs", "MBA")

SpecMeta == InitMeta /\ [][NextMeta]_vars

(***************************** the prompt ***********************************)
\* src/models/llm.py.  A prompt is the sequence of its parts, each part a
\* record [part, value]; a text is a sequence of one-character strings.

\* crisis_keywords, depression_keywords, anxiety_keywords, help_keywords
PromptKeywords ==
    [crisis |->
        { <<"s","u","i","c","i","d","e">>,
          <<"s","u","i","c","i","d","a","l">>,
          <<"k","i","l","l"," ","m","y","s","e","l","f">>,
          <<"e","n","d"," ","i","t"," ","a","l","l">>,
          <<"h","u","r","t"," ","m","y","s","e","l","f">>,
          <<"d","o","n","'","t"," ","w","a","n","t"," ","t","o"," ","l","i","v","e">>,
          <<"b","e","t","t","e","r"," ","o","f","f"," ","d","e","a","d">>,
          <<"w","a","n","t"," ","t","o"," ","d","i","e">> },
     depression |->
        { <<"d","e","p","r","e","s","s","e","d">>,
          <<"d","e","p","r","e","s","s","i","o","n">>, <<"s","a","d">>,
          <<"h","o","p","e","l","e","s","s">>, <<"e","m","p","t","y">>,
          <<"w","o","r","t","h","l","e","s","s">> },
     anxiety |->
        { <<"a","n","x","i","o","u","s">>, <<"a","n","x","i","e","t","y">>,
          <<"p","a","n","i","c">>, <<"w","o","r","r","i","e","d">>,
          <<"s","t","r","e","s","s","e","d">>,
          <<"o","v","e","r","w","h","e","l","m","e","d">> },
     help |->
        { <<"h","e","l","p"," ","m","e">>,
          <<"n","e","e","d"," ","h","e","l","p">>,
          <<"d","o","n","'","t"," ","k","n","o","w"," ","w","h","a","t"," ","t","o"," ","d","o">>,
          <<"l","o","s","t">>, <<"c","o","n","f","u","s","e","d">> }]

\* the system_prompt chosen for the query
SystemPrompt(query) ==
    LET is(kind) == \E kw \in PromptKeywords[kind] : Contains(Lower(query), kw)
    IN  IF is("crisis") THEN "crisis"
        ELSE IF is("depression") THEN "depression"
        ELSE IF is("anxiety") THEN "anxiety"
        ELSE IF is("help") THEN "seeking_help"
        ELSE "supporter"

\* the style_instruction chosen for the mode
StyleInstruction(mode) ==
    IF Lower(mode) = <<"c","o","n","c","i","s","e">> THEN "concise"
    ELSE IF Lower(mode) = <<"d","e","t","a","i","l","e","d">> THEN "detailed"
    ELSE "plain"

\* _build_prompt(query, context, history, mode); history is None or Some(list)
BuildPrompt(query, context, history, mode) ==
    << [part |-> "system_prompt", value |-> SystemPrompt(query)],
       [part |-> "context",
        value |-> IF context # <<>> THEN context ELSE <<"d","e","f","a","u","l","t">>] >>
    \o (IF history # None /\ history[1] # <<>>
        THEN << [part |-> "history", value |-> history[1]],
                [part |-> "user_message", value |-> query],
                [part |-> "style_instruction", value |-> StyleInstruction(mode)] >>
        ELSE <<>>)

\* (query, context, history, mode) of the generate_response calls tried
LlmInputs ==
    { <<"i"," ","w","a","n","t"," ","t","o"," ","d","i","e">>,
      <<"s","o"," ","S","a","d">>,
      <<"p","a","n","i","c">>,
      <<"l","o","s","t">>,
      <<"h","i">> }
    \X { <<>>, <<"r","a","g">> }
    \X { None, Some(<<>>), Some(<<"turn">>) }
    \X { <<"C","o","n","c","i","s","e">>, <<"d","e","t","a","i","l","e","d">>,
         <<"D","E","T","A","I","L","E","D">>, <<"b","r","i","e","f">> }

InitLlm ==
    /\ index = <<>>
    /\ texts = <<>>
    /\ metadata = <<>>
    /\ rag = FALSE
    /\ knowledge_loaded = FALSE
    /\ disk = EmptyDisk
    /\ ret = NoRet
    /\ last = Op("init")
    /\ prevSnap = EmptyStore
    /\ newSnap = EmptyStore
    /\ nops = 0
    /\ pk_results = <<>>
    /\ pk_query = <<>>
    /\ par = NoPar
    /\ heap = NoHeap
    /\ \E a \in LlmInputs :
          llm = [NoLlm EXCEPT !.query = a[1], !.context = a[2],
                              !.history = a[3], !.mode = a[4]]

\* LLMProvider.generate_response up to the call of the model: the prompt
GenerateResponse ==
    /\ ~llm.called
    /\ llm' = [llm EXCEPT
                  !.prompt = BuildPrompt(llm.query, llm.context, llm.history, llm.mode),
                  !.called = TRUE]
    /\ UNCHANGED <<index, texts, metadata, rag, knowledge_loaded, disk, ret, last,
                   prevSnap, newSnap, nops, pk_results, pk_query, par, heap>>

NextLlm == GenerateResponse

SpecLlm == InitLlm /\ [][NextLlm]_vars

(***************************** properties ***********************************)
IsDefault(r) == r.kind \in {"default_crisis", "default_generic"}
Retrieved == last.op = "retrieve_knowledge"

\* the results the packer was given
Packed == IF last.op = "pack" THEN pk_results ELSE Results(ret.hits)
PackRaised == Packed # <<>> /\ RetrieveBody(Packed, last.q, last.L).kind = "raised"

C2_LengthBudget ==
    (last.op \in {"pack", "retrieve_knowledge"} /\ ret.kind = "packed")
        => ret.len <= last.L + MinFragment

\* a result is crisis-priority
IsCrisisResult(r) ==
    ("priority" \in DOMAIN r.metadata /\ r.metadata["priority"] = "high")
    \/ \E kw \in { <<"s","u","i","c","i","d","e">>, <<"c","r","i","s","i","s">>,
                   <<"e","m","e","r","g","e","n","c","y">>, <<"h","a","r","m">>,
                   <<"d","a","n","g","e","r">> } : Contains(Lower(last.q), kw)

\* C3: every packed block of a crisis-priority result precedes every packed
\* block of another result, and inside each group the blocks are in the
\* order search returned them (similarity descending).
C3_CrisisFirst ==
    ret.kind = "packed" =>
        \A i, j \in 1..Len(ret.blocks) : i < j =>
            LET a == Packed[ret.blocks[i].src]
                b == Packed[ret.blocks[j].src]
            IN  /\ ~(IsCrisisResult(b) /\ ~IsCrisisResult(a))
                /\ (IsCrisisResult(a) <=> IsCrisisResult(b)) =>
                      /\ ret.blocks[i].src < ret.blocks[j].src
                      /\ a.similarity >= b.similarity

\* C3 witness: a high-priority result is packed in front of another result of
\* higher similarity.
C3_Witness ==
    /\ ret.kind = "packed"
    /\ Len(ret.blocks) >= 2
    /\ IsCrisisResult(Packed[ret.blocks[1].src])
    /\ \E j \in 2..Len(ret.blocks) :
          /\ ~IsCrisisResult(Packed[ret.blocks[j].src])
          /\ Packed[ret.blocks[j].src].similarity
                > Packed[ret.blocks[1].src].similarity

\* the query, lower-cased, contains one of the seven fallback keywords
HasFallbackKeyword(q) ==
    \E kw \in { <<"s","u","i","c","i","d","e">>, <<"c","r","i","s","i","s">>,
                <<"e","m","e","r","g","e","n","c","y">>, <<"h","a","r","m">>,
                <<"d","a","n","g","e","r">>, <<"d","i","e">>, <<"k","i","l","l">> } :
        Contains(Lower(q), kw)

\* C4: when search yields no result, retrieve_knowledge returns the crisis
\* block if the lower-cased query contains one of the seven keywords and the
\* generic block otherwise, whatever the index holds.
C4_FallbackSelection ==
    (Retrieved /\ ret.hits = <<>>) =>
        /\ ret.blocks = <<>>
        /\ HasFallbackKeyword(last.q) =>
              ret.kind = "default_crisis" /\ ret.len = CrisisBlockLen
        /\ ~HasFallbackKeyword(last.q) =>
              ret.kind = "default_generic" /\ ret.len = GenericBlockLen

\* C4 witness: "diet" holds "die": the crisis block is returned although the
\* index is not empty.
C4_Witness ==
    /\ Retrieved /\ ret.hits = <<>> /\ last.fault = "none"
    /\ last.q = <<"d","i","e","t">>
    /\ Len(texts) > 0
    /\ ret.kind = "default_crisis"

\* C5: the texts, the metadata maps and the vectors are equally many, and
\* the vector at each position is the embedding of the text there.
C5_LockStep ==
    /\ Len(texts) = Len(metadata)
    /\ Len(index) = Len(texts)
    /\ \A i \in 1..Len(texts) : index[i] = TextVec(texts[i].body)

\* C6: no chunk of a knowledge document is in the index more than once.
C6_NoDuplicateChunk ==
    \A i, j \in 1..Len(texts) :
        (i < j /\ texts[i].body \in KnowledgeBodies /\ j <= Len(metadata))
            => ~(texts[i] = texts[j] /\ metadata[i] = metadata[j])

Searched == last.op = "search"

\* C7: the list search returns is non-increasing in similarity.
C7_SimilarityOrder ==
    \A i, j \in 1..Len(ret.hits) :
        i < j => ret.hits[i].r.similarity >= ret.hits[j].r.similarity

\* C7 witness: search returned results of different similarity.
C7_Witness ==
    /\ Searched
    /\ Len(ret.hits) >= 2
    /\ ret.hits[1].r.similarity > ret.hits[Len(ret.hits)].r.similarity

\* the sets of m positions of the index that are nearest to the vector qv
NearestSets(qv, m) ==
    { N \in SUBSET (1..Len(index)) :
        /\ Cardinality(N) = m
        /\ \A a \in N, b \in (1..Len(index)) \ N :
              Distance(index[a], qv) <= Distance(index[b], qv) }

\* C8: for a query that has an embedding, search returns exactly those of the
\* min(k, store size) nearest stored chunks whose similarity is at least
\* score_threshold (a similarity equal to the threshold included), each once
\* and as stored, and never more than k.  (A stored chunk is a position that
\* has a vector and a text; on a store in lock-step that is every position.)
C8_ThresholdFilter ==
    (Searched /\ last.fault = "none" /\ QStrip(last.q) # <<>>) =>
        LET qv == QueryVec(QStrip(last.q))
            kk == IF last.k < Len(texts) THEN last.k ELSE Len(texts)
            m == IF kk < Len(index) THEN kk ELSE Len(index)
            got == {ret.hits[i].pos : i \in 1..Len(ret.hits)}
            sim(p) == IF 100 - 5 * Distance(index[p], qv) < 0 THEN 0
                      ELSE 100 - 5 * Distance(index[p], qv)
        IN  /\ Len(ret.hits) <= last.k
            /\ Cardinality(got) = Len(ret.hits)
            /\ \E N \in NearestSets(qv, m) :
                  got = {p \in N : p <= Len(texts) /\ sim(p) >= last.thr}
            /\ \A i \in 1..Len(ret.hits) :
                  /\ ret.hits[i].r.text = texts[ret.hits[i].pos]
                  /\ ret.hits[i].r.metadata = metadata[ret.hits[i].pos]
                  /\ ret.hits[i].r.similarity = sim(ret.hits[i].pos)

\* C8 witness: a chunk whose similarity equals the threshold is returned and
\* a chunk below the threshold is in the store.
C8_Witness ==
    /\ Searched /\ last.fault = "none" /\ Len(index) = Len(texts)
    /\ \E i \in 1..Len(ret.hits) : ret.hits[i].r.similarity = last.thr
    /\ \E p \in 1..Len(texts) :
          Similarity(Distance(index[p], QueryVec(QStrip(last.q)))) < last.thr

\* C9: a fresh store constructed on the persist path right after a save_index
\* that completed holds the saved texts and metadata position by position and
\* the saved vectors, and answers every search as the saved store did.
C9_RoundTrip ==
    (last.op = "construct_store" /\ last.afterSave) =>
        /\ texts = newSnap.texts
        /\ metadata = newSnap.metadata
        /\ Len(index) = Len(newSnap.index)
        /\ \A a \in SearchInputs :
              SearchIn(cur, a[1], a[2], a[3], a[4] # "embed", a[4] # "faiss")
                = SearchIn(newSnap, a[1], a[2], a[3], a[4] # "embed", a[4] # "faiss")

\* C9 witness: a store with chunks was saved and loaded back.
C9_Witness ==
    /\ last.op = "construct_store" /\ last.afterSave
    /\ Len(texts) >= 2
    /\ \E a \in SearchInputs :
          SearchIn(cur, a[1], a[2], a[3], TRUE, TRUE) # {<<>>}

\* C10: what _load_index restores is, in full, the store of the last
\* save_index that completed or the store of the last save_index call (or
\* nothing, when it fell back to the empty store): never the vectors of one
\* with the texts and metadata of the other.
C10_SnapshotAtomic ==
    last.op \in {"construct_store", "construct_retriever"} =>
        last.loaded \in {prevSnap, newSnap, EmptyStore}

\* C11: when counselors.json is missing or malformed, constructing the
\* Retriever does not raise and adds the chunks of every static document to
\* what the snapshot held; only the counselor documents are skipped.
C11_StaticsKept ==
    (last.op \in {"init", "construct_retriever"}
       /\ last.outcome \in {"absent", "malformed"}) =>
        cur = AddDocumentsTo(last.loaded, StaticDocs, {})

\* C12: an add_text (also the one inside add_custom_knowledge) whose text is
\* empty or whitespace-only, or whose embedding is the all-zero vector (the
\* provider's answer, or its failure), leaves the vectors, the texts and the
\* metadata as they were.
C12_AddTextNoOp ==
    [][ (last'.op \in {"add_text", "add_custom_knowledge"}
           /\ (IsBlank(last'.t) \/ Embed(last'.t, last'.fault # "embed") = ZeroVec))
        => UNCHANGED <<index, texts, metadata>> ]_vars

\* C12 witness: an add_text of a non-blank text whose provider call failed,
\* on a store that holds chunks.
C12_Witness ==
    /\ last.op = "add_text" /\ ~IsBlank(last.t) /\ last.fault = "embed"
    /\ Len(texts) >= 2 /\ Len(index) = Len(texts)

\* C13: embed never raises: it returns a vector; when the provider call fails
\* the vector is the all-zero vector of dimension D, and for an empty or
\* whitespace-only text it is the all-zero vector and the provider is not
\* called.
C13_EmbedFailSoft ==
    last.op = "embed" =>
        /\ ret.kind = "vector"
        /\ last.fault = "embed" => (ret.vec = ZeroVec /\ ret.dim = Dimension)
        /\ last.t.len = 0 =>
              (ret.vec = ZeroVec /\ ret.dim = Dimension /\ ~ret.called)

\* C13 witness: the provider failed on a text it would embed as a non-zero
\* vector.
C13_Witness ==
    /\ last.op = "embed" /\ last.fault = "embed"
    /\ last.t.len > 0 /\ TextVec(last.t.body) # ZeroVec
    /\ ret.vec = ZeroVec /\ ret.called

\* C14: when the query is empty or whitespace-only, the store holds no text,
\* or the query's embedding is the all-zero vector, search returns the empty
\* list without reaching the nearest-neighbour lookup, and retrieve_knowledge
\* returns a default-context block.
C14_NoEmbeddingNoLookup ==
    (last.op \in {"search", "retrieve_knowledge"}
       /\ (QStrip(last.q) = <<>> \/ Len(texts) = 0
             \/ EmbedQuery(last.q, last.fault # "embed") = ZeroVec)) =>
        /\ ret.hits = <<>>
        /\ ~ret.lookup
        /\ Retrieved => IsDefault(ret)

\* C14 witness: the query's embedding failed while the store holds a chunk
\* that lies next to the zero vector.
C14_Witness ==
    /\ last.op \in {"search", "retrieve_knowledge"}
    /\ QStrip(last.q) # <<>> /\ last.fault = "embed"
    /\ Len(index) = Len(texts)
    /\ \E p \in 1..Len(index) :
          Similarity(Distance(index[p], ZeroVec)) >= last.thr
    /\ ret.hits = <<>>

\* a file of the snapshot is missing or unreadable
Unloadable(dk) ==
    \/ dk.index_faiss.state \in {"absent", "corrupt"}
    \/ dk.data_pkl.state \in {"absent", "corrupt"}

\* C15: when neither file of the snapshot exists, when only one exists, or
\* when a file is corrupt, _load_index leaves the store empty: a fresh store
\* holds no vector, no text and no metadata.
C15_LoadFallsBackToEmpty ==
    (last.op \in {"construct_store", "construct_retriever"} /\ Unloadable(disk)) =>
        /\ last.loaded = EmptyStore
        /\ last.op = "construct_store" => cur = EmptyStore

\* C15 witness: only index.faiss exists, with vectors in it, and the fresh
\* store is empty.
C15_Witness ==
    /\ last.op = "construct_store"
    /\ disk.index_faiss.state = "ok" /\ Len(disk.index_faiss.vecs) > 0
    /\ disk.data_pkl.state = "absent"
    /\ cur = EmptyStore

\* the first result in packing order neither fits context_length nor leaves
\* room for a truncated fragment, or context_length is not positive
NothingPackable ==
    LET first == Packed[PackOrder(Packed, last.q)[1]]
        hl == HeaderLen(first.metadata)
    IN  \/ last.L <= 0
        \/ /\ hl + 1 + first.text.len > last.L
           /\ last.L - hl - 10 <= 100

\* C16: retrieve_knowledge returns the empty string exactly when search
\* returned a result and no block could be packed; when search returns no
\* result or an exception occurs the answer is a non-empty default block.
C16_EmptyOnlyWhenUnpackable ==
    last.op \in {"pack", "retrieve_knowledge"} =>
        /\ ret.len = 0 <=> (Packed # <<>> /\ ~PackRaised /\ NothingPackable)
        /\ (Packed = <<>> \/ PackRaised) => (IsDefault(ret) /\ ret.len > 0)

\* C16 witness: results exist, context_length is positive and too small for
\* the first block or a fragment of it, and the empty string is returned.
C16_Witness ==
    /\ last.op = "pack" /\ Packed # <<>> /\ last.L > 0
    /\ ret.kind = "packed" /\ ret.blocks = <<>> /\ ret.len = 0

\* C17: get_stats reports the number of texts as total_documents, the number
\* of vectors as index_size, the store's dimension, and as metadata_keys
\* every key of every stored metadata map, each once.
C17_StatsReflectStore ==
    last.op = "get_stats" =>
        /\ ret.stats.total_documents = Len(texts)
        /\ ret.stats.index_size = Len(index)
        /\ ret.stats.dimension = Dimension
        /\ DOMAIN ret.stats.metadata_keys
              = UNION {DOMAIN metadata[i] : i \in 1..Len(metadata)}
        /\ \A k \in DOMAIN ret.stats.metadata_keys : ret.stats.metadata_keys[k] = 1

\* C17 witness: two stored maps share a key and one has a key the other
\* lacks.
C17_Witness ==
    /\ last.op = "get_stats"
    /\ \E i, j \in 1..Len(metadata) :
          /\ i # j
          /\ DOMAIN metadata[i] \cap DOMAIN metadata[j] # {}
          /\ DOMAIN metadata[i] \ DOMAIN metadata[j] # {}
    /\ ret.stats.total_documents >= 2

\* C18: on a store that nothing changes, each of the search calls running at
\* the same time, interleaved in any order, returns a result the same call
\* returns when it runs alone.
C18_ParallelSearch ==
    \A c \in DOMAIN par.pc :
        par.pc[c] = "done" =>
            par.out[c] \in SearchIn(cur, par.arg[c].q, par.arg[c].k, par.arg[c].thr,
                                    par.arg[c].fault # "embed",
                                    par.arg[c].fault # "faiss")

\* C18 witness: a call with another query ran from entry to return while
\* call 1 was inside its loop, and both found something.
C18_Witness ==
    /\ par.pc # <<>>
    /\ \E c, d \in DOMAIN par.pc :
          /\ c # d
          /\ par.pc[c] = "loop" /\ par.loc[c].i > 1 /\ par.loc[c].results # <<>>
          /\ par.pc[d] = "done" /\ par.out[d] # <<>>
          /\ par.arg[c].q # par.arg[d].q

\* the step keeps every occupied position as it is and removes none
KeepsChunks ==
    /\ Len(index') >= Len(index)
    /\ Len(texts') >= Len(texts)
    /\ Len(metadata') >= Len(metadata)
    /\ \A i \in 1..Len(index) : index'[i] = index[i]
    /\ \A i \in 1..Len(texts) : texts'[i] = texts[i]
    /\ \A i \in 1..Len(metadata) : metadata'[i] = metadata[i]

\* C19 as stated: no public operation on the store or the Retriever,
\* clear_index among them, removes a chunk or changes the text or metadata
\* at an occupied position.
C19_AppendOnlyWithClear ==
    [][ last'.op \in {"add_text", "add_documents", "add_custom_knowledge",
                      "search", "retrieve_knowledge", "save_index", "get_stats",
                      "clear_index"}
        => KeepsChunks ]_vars

\* C19 amended: add_text, add_documents, add_custom_knowledge, search,
\* retrieve_knowledge, save_index and get_stats remove no chunk and change no
\* occupied position; clear_index removes every chunk.
C19_AppendOnlyUntilClear ==
    [][ /\ last'.op \in {"add_text", "add_documents", "add_custom_knowledge",
                          "search", "retrieve_knowledge", "save_index", "get_stats"}
           => KeepsChunks
        /\ last'.op = "clear_index"
           => (index' = <<>> /\ texts' = <<>> /\ metadata' = <<>>) ]_vars

\* C19 witness: a note was appended behind the chunks of the knowledge base.
C19_Witness ==
    /\ last.op = "add_custom_knowledge" /\ last.fault = "none"
    /\ Len(texts) >= 3
    /\ texts[Len(texts)] = Strip(last.t)
    /\ texts[1].body \in KnowledgeBodies

\* len of the untruncated block of result r: header, newline, stripped text
FullLen(r) == HeaderLen(r.metadata) + 1 + r.text.len

\* total length of the first n packed blocks
PackedLen(n) == SumLen(SubSeq(ret.blocks, 1, n))

\* C20: the packed blocks are those of the first results in packing order,
\* whole while the cumulative length stays within context_length; the first
\* result whose block would exceed it ends the packing, with a fragment
\* (header, newline, prefix of the text, "...") exactly when context_length
\* minus the length packed minus the header length minus 10 exceeds 100, and
\* nothing behind it is packed.
C20_GreedyPacking ==
    (last.op \in {"pack", "retrieve_knowledge"} /\ ret.kind = "packed") =>
        LET order == PackOrder(Packed, last.q)
            n == Len(ret.blocks)
        IN  /\ n <= Len(order)
            /\ \A i \in 1..n :
                  LET b == ret.blocks[i]
                      r == Packed[order[i]]
                      room == last.L - PackedLen(i - 1) - HeaderLen(r.metadata) - 10
                  IN  /\ b.src = order[i]
                      /\ b.hdr = HeaderLen(r.metadata)
                      /\ b.truncated => i = n
                      /\ ~b.truncated =>
                            /\ b.len = FullLen(r)
                            /\ PackedLen(i) <= last.L
                      /\ b.truncated =>
                            /\ PackedLen(i - 1) + FullLen(r) > last.L
                            /\ room > 100
                            /\ b.chars = room /\ b.chars < r.text.len
                            /\ b.len = b.hdr + 1 + b.chars + 3
            /\ (n < Len(order) /\ (n = 0 \/ ~ret.blocks[n].truncated)) =>
                  LET r == Packed[order[n + 1]]
                  IN  /\ PackedLen(n) + FullLen(r) > last.L
                      /\ last.L - PackedLen(n) - HeaderLen(r.metadata) - 10 <= 100

\* C20 witness: the packing ended at a block that did not fit, and a result
\* behind it that would have fit was left out.
C20_Witness ==
    /\ last.op = "pack" /\ ret.kind = "packed"
    /\ LET order == PackOrder(Packed, last.q)
           n == Len(ret.blocks)
       IN  /\ n >= 2 /\ ret.blocks[n].truncated
           /\ \E j \in (n + 1)..Len(order) :
                 PackedLen(n - 1) + FullLen(Packed[order[j]]) <= last.L

\* C21: every result search returns carries the distance of its vector from
\* the query's, which is not negative, and the similarity max(0, 1 - d/4)
\* (in hundredths, of d in units of 0.2: max(0, 100 - 5d)); the similarity
\* lies between 0 and 1 and a smaller distance never gives a smaller
\* similarity.
C21_Normalization ==
    (Searched /\ QStrip(last.q) # <<>>) =>
        \A i \in 1..Len(ret.hits) :
            LET h == ret.hits[i]
                d == (index[h.pos] - QueryVec(QStrip(last.q)))
                       * (index[h.pos] - QueryVec(QStrip(last.q)))
            IN  /\ h.r.distance = d
                /\ h.r.distance >= 0
                /\ h.r.similarity = (IF 5 * d >= 100 THEN 0 ELSE 100 - 5 * d)
                /\ h.r.similarity >= 0 /\ h.r.similarity <= 100
                /\ \A j \in 1..Len(ret.hits) :
                      ret.hits[j].r.distance < h.r.distance
                          => ret.hits[j].r.similarity >= h.r.similarity

\* C21 witness: two results at different positive distances.
C21_Witness ==
    /\ Searched
    /\ \E i, j \in 1..Len(ret.hits) :
          /\ 0 < ret.hits[i].r.distance
          /\ ret.hits[i].r.distance < ret.hits[j].r.distance
          /\ ret.hits[j].r.similarity < ret.hits[i].r.similarity

\* C22: of two results of equal similarity in the list search returns, the
\* one stored at the lower position comes first.
C22_TieByPosition ==
    Searched =>
        \A i, j \in 1..Len(ret.hits) :
            (i < j /\ ret.hits[i].r.similarity = ret.hits[j].r.similarity)
                => ret.hits[i].pos < ret.hits[j].pos

\* metadata m is that of document doc stamped as chunk i of n
StampedFrom(m, doc, i, n) ==
    /\ {"chunk_id", "total_chunks"} \subseteq DOMAIN m
    /\ m["chunk_id"] = i
    /\ m["total_chunks"] = n
    /\ \A key \in DOMAIN doc.metadata :
           key \in DOMAIN m /\ m[key] = doc.metadata[key]

\* C23: add_documents stores the chunk at 0-based position i of a document of
\* n chunks with chunk_id = i, total_chunks = n and every key of the parent
\* document, in increasing chunk_id order; the document of empty content adds
\* nothing; every stored chunk_id lies in 0 .. total_chunks - 1.
C23_ChunkStamping ==
    [][ /\ \A p \in 1..Len(metadata') :
              "chunk_id" \in DOMAIN metadata'[p] =>
                  /\ "total_chunks" \in DOMAIN metadata'[p]
                  /\ 0 <= metadata'[p]["chunk_id"]
                  /\ metadata'[p]["chunk_id"] < metadata'[p]["total_chunks"]
        /\ last'.op = "add_documents" =>
              LET t0 == Len(texts)
                  m0 == Len(metadata)
                  added == Len(texts') - t0
              IN  /\ SubSeq(texts', 1, t0) = texts
                  /\ SubSeq(metadata', 1, m0) = metadata
                  /\ Len(metadata') - m0 = added
                  /\ added = 2
                  /\ \A j \in 1..added :
                         \E i \in 0..1 :
                             /\ texts'[t0 + j].body = <<"handout#0", "handout#1">>[i + 1]
                             /\ StampedFrom(metadata'[m0 + j], HandoutDoc, i, 2)
                  /\ \A j1, j2 \in 1..added :
                         j1 < j2 => metadata'[m0 + j1]["chunk_id"]
                                        < metadata'[m0 + j2]["chunk_id"]
      ]_vars

C23_Witness ==
    /\ last.op = "add_documents"
    /\ last.fault = "none"
    /\ Len(texts) >= 3
    /\ texts[Len(texts) - 1].body = "handout#0"
    /\ texts[Len(texts)].body = "handout#1"
    /\ metadata[Len(metadata) - 1]["chunk_id"] = 0
    /\ metadata[Len(metadata)]["chunk_id"] = 1
    /\ metadata[Len(metadata)]["total_chunks"] = 2
    /\ metadata[Len(metadata)]["type"] = "handout"

\* C24: writing through one chunk's stored metadata, or through the parent
\* document's, into a value or into a nested list changes the value of no
\* other stored metadata and of no other document's metadata.
C24_MetadataIsolation ==
    [][ last'.op \in {"set_item", "append"} =>
            \A a \in Roots(heap, metadata) \ {last'.k} :
                Deep(heap'.objs, a) = Deep(heap.objs, a)
      ]_vars

\* the part of C24 that a shallow copy gives: an assignment to a key
C24_TopLevelIsolation ==
    [][ last'.op = "set_item" =>
            \A a \in Roots(heap, metadata) \ {last'.k} :
                Deep(heap'.objs, a) = Deep(heap.objs, a)
      ]_vars

\* C25: a search call, and a retrieve_knowledge call on a Retriever whose
\* knowledge_loaded flag is true, leave the index, the texts, the metadata and
\* the flag as they were.
C25_RetrievalReadOnly ==
    [][ (\/ last'.op = "search"
         \/ (last'.op = "retrieve_knowledge" /\ knowledge_loaded))
            => UNCHANGED <<index, texts, metadata, knowledge_loaded>>
      ]_vars

C25_Witness ==
    /\ last.op = "retrieve_knowledge"
    /\ last.outcome = "loaded"
    /\ knowledge_loaded
    /\ ret.kind = "packed"
    /\ Len(index) >= 2

\* C26: the sequence the packer goes through, crisis_results + other_results,
\* holds every position of the list search returned exactly once, also when
\* the list holds equal results; when the query contains one of the five
\* crisis keywords it is the list in search order.
C26_PartitionIsPermutation ==
    last.op = "pack" =>
        LET order == PackOrder(pk_results, last.q)
            n == Len(pk_results)
        IN  /\ Len(order) = n
            /\ \A p \in 1..n : \E i \in 1..n : order[i] = p
            /\ QueryIsCrisis(last.q) => order = [i \in 1..n |-> i]

C26_Witness ==
    /\ last.op = "pack"
    /\ ~QueryIsCrisis(last.q)
    /\ \E i, j, m \in 1..Len(pk_results) :
          /\ i < j
          /\ pk_results[i] = pk_results[j]
          /\ IsCrisisResult(pk_results[i])
          /\ ~IsCrisisResult(pk_results[m])
          /\ m < Len(pk_results)
          /\ pk_results[m] = pk_results[m + 1]

\* C27: while one add_text call appends its vector, its text and its metadata
\* in three steps, a search call that has returned (an exception inside it
\* ends it with the empty list) holds only results whose text and metadata
\* are those stored at one position of the store.
C27_SearchDuringAdd ==
    (0 \in DOMAIN par.pc /\ par.pc[1] = "done") =>
        \A i \in 1..Len(par.out[1]) :
            LET h == par.out[1][i]
            IN  /\ h.pos >= 1
                /\ h.pos <= Len(texts)
                /\ h.pos <= Len(metadata)
                /\ h.r.text = texts[h.pos]
                /\ h.r.metadata = metadata[h.pos]

\* C27 witness: between texts.append and metadata.append of the add_text
\* call, the search has kept one result and comes to the position of the
\* new text, which has no metadata yet
C27_Witness ==
    /\ 0 \in DOMAIN par.pc
    /\ par.pc[0] = "metadata"
    /\ Len(texts) > Len(metadata)
    /\ par.pc[1] = "loop"
    /\ par.loc[1].results # <<>>
    /\ par.loc[1].i <= Len(par.loc[1].found)
    /\ par.loc[1].found[par.loc[1].i] = Len(texts)

\* C28: when _load_knowledge_base ends with knowledge_loaded false, in the
\* constructor or in the lazy retry of retrieve_knowledge, the index, the
\* texts and the metadata are what they were before the attempt.
C28_FailedLoadAddsNothing ==
    [][ /\ (last'.op = "construct_retriever" /\ ~knowledge_loaded')
            => Store(index', texts', metadata') = LoadIndex(disk)
        /\ (last'.op = "retrieve_knowledge" /\ ~knowledge_loaded /\ ~knowledge_loaded')
            => UNCHANGED <<index, texts, metadata>>
        /\ (last.op = "init" /\ ~knowledge_loaded) => cur = EmptyStore
      ]_vars

C28_Witness ==
    /\ last.op = "retrieve_knowledge"
    /\ last.outcome = "load_failed"
    /\ ~knowledge_loaded
    /\ Len(texts) >= 1
    /\ ret.kind = "packed"

\* C29: whenever the Retriever's knowledge_loaded flag is true, the store
\* holds at least one chunk of each static knowledge document.
C29_LoadedImpliesContent ==
    (rag /\ knowledge_loaded) =>
        \A d \in 1..Len(StaticDocs) :
            \E p \in 1..Len(texts) :
                /\ p <= Len(index)
                /\ texts[p].body = StaticDocs[d].content.body

\* C30: the prompt generate_response builds holds the user's current message
\* and the response-style instruction, for every query, context, mode and
\* history, the empty history included.
C30_PromptHasMessageAndStyle ==
    llm.called =>
        /\ \E i \in 1..Len(llm.prompt) :
               /\ llm.prompt[i].part = "user_message"
               /\ llm.prompt[i].value = llm.query
        /\ \E i \in 1..Len(llm.prompt) :
               /\ llm.prompt[i].part = "style_instruction"
               /\ llm.prompt[i].value = StyleInstruction(llm.mode)
====
